---- MODULE Spec2Model ----
(***************************************************************************)
(* Model of src-tauri/src/lib.rs: the four persistence commands            *)
(* (save_notes, load_notes, save_tasks, load_tasks) over the two files     *)
(* notes.json and tasks.json of the application data directory, and the    *)
(* global shortcut handler that toggles the main window or exits.          *)
(*                                                                         *)
(* Texts are TLA+ strings.  Every call of the host or of the file system   *)
(* that returns a Result in the source takes its outcome from an           *)
(* environment record env, drawn by the action; an outcome is drawn only   *)
(* for a step the callback reaches (an unreached step keeps the value it   *)
(* has when nothing fails), and the record is kept in last.env.            *)
(***************************************************************************)
EXTENDS Integers, Sequences, FiniteSets

VARIABLES
    dirExists,   \* the application data directory exists
    files,       \* the files of that directory, by name : [exists, data]
    window,      \* the webview window "main" : [present, visible, focused]
    process,     \* [running, code] : code is the exit code once not running
    held,        \* the registered shortcuts that are pressed and not yet released
    last,        \* the last callback run: its name, env, result and the calls it made
    notesSaved,  \* history: argument of the latest save_notes, if it succeeded
    tasksSaved,  \* history: payload of the latest save_tasks, if it succeeded
    seen         \* history: per document, what its first fault-free load since its
                 \* latest save returned, and whether the other document was
                 \* saved since

vars == <<dirExists, files, window, process, held, last, notesSaved, tasksSaved, seen>>

-----------------------------------------------------------------------------
(* Bounds of the model *)

MaxLen == 2     \* longest text handed to save_notes
MaxArr == 1     \* longest JSON array handed to save_tasks

-----------------------------------------------------------------------------
(* Texts *)

Chars == {"[", "]"}

RECURSIVE TextsUpTo(_)
TextsUpTo(n) ==
    IF n = 0 THEN {""}
    ELSE LET S == TextsUpTo(n - 1) IN S \cup {t \o c : t \in S, c \in Chars}

\* the notes: String argument of save_notes
NotesArgs == TextsUpTo(MaxLen)

-----------------------------------------------------------------------------
(* serde_json::Value and its compact serialization *)

Null == [t |-> "null"]
Num(n) == [t |-> "num", n |-> n]
Arr(a) == [t |-> "arr", a |-> a]
Obj(k, v) == [t |-> "obj", k |-> k, v |-> v]

RECURSIVE SeqsUpTo(_, _)
SeqsUpTo(S, n) ==
    IF n = 0 THEN {<<>>}
    ELSE LET R == SeqsUpTo(S, n - 1) IN R \cup {Append(s, x) : s \in R, x \in S}

\* the values of the tasks field: null and the arrays of ones
Values == {Null} \cup {Arr(a) : a \in SeqsUpTo({Num(1)}, MaxArr)}

TasksPayload(v) == [tasks |-> v]

Payloads == {TasksPayload(v) : v \in Values}

Digits == <<"0", "1", "2", "3", "4", "5", "6", "7", "8", "9">>

RECURSIVE NumStr(_)
NumStr(n) ==
    IF n < Len(Digits) THEN Digits[n + 1]
    ELSE NumStr(n \div Len(Digits)) \o Digits[(n % Len(Digits)) + 1]

RECURSIVE to_string(_)
RECURSIVE JoinComma(_)

JoinComma(a) ==
    IF Len(a) = 0 THEN ""
    ELSE IF Len(a) = 1 THEN to_string(a[1])
    ELSE to_string(a[1]) \o "," \o JoinComma(Tail(a))

\* serde_json::to_string of a Value: compact, no whitespace
to_string(v) ==
    CASE v.t = "null" -> "null"
      [] v.t = "num"  -> NumStr(v.n)
      [] v.t = "arr"  -> "[" \o JoinComma(v.a) \o "]"
      [] v.t = "obj"  -> "{" \o "\"" \o v.k \o "\"" \o ":" \o to_string(v.v) \o "}"

\* the payload as it travels on the wire: the envelope { tasks: <value> }
Envelope(payload) == Obj("tasks", payload.tasks)

-----------------------------------------------------------------------------
(* Results and files *)

Unit == "()"
Ok(v) == [ok |-> TRUE, val |-> v, err |-> ""]
Err(e) == [ok |-> FALSE, val |-> "", err |-> e]

NoFile == [exists |-> FALSE, data |-> ""]
File(d) == [exists |-> TRUE, data |-> d]

\* a slip: the name copied from the tasks commands
notes_file_copied == "tasks.json"

\* app_dir.join("notes.json"), app_dir.join("tasks.json")
notes_file == "notes.json"
tasks_file == "tasks.json"

FileNames == {"notes.json", "tasks.json"}

\* the file system as the commands see it
Fs(dir, fl) == [dir |-> dir, files |-> fl]

\* a slip: an empty object for an empty array
EmptyObject == "{}"

\* the text a load answers when the file is not there
EmptyArray == "[]"

-----------------------------------------------------------------------------
(* Outcomes of the fallible calls of the persistence commands *)

\* nothing fails.  write is the outcome of fs::write: -1 when the file could
\* not be opened, otherwise the number of bytes written before it returned
\* (all of them on success); it is 0 for a call that does not reach fs::write
EnvOk ==
    [resolve |-> TRUE, mkdir |-> TRUE, ser |-> TRUE, write |-> 0,
     stat |-> TRUE, read |-> TRUE]

\* outcomes a save can meet: app_data_dir fails; create_dir_all fails (only
\* when the directory is missing); to_string fails (save_tasks only);
\* fs::write stops after k bytes
SaveEnvs(dir, data, withSer) ==
    {[EnvOk EXCEPT !.resolve = FALSE]}
    \cup (IF dir THEN {} ELSE {[EnvOk EXCEPT !.mkdir = FALSE]})
    \cup (IF withSer THEN {[EnvOk EXCEPT !.ser = FALSE]} ELSE {})
    \cup {[EnvOk EXCEPT !.write = k] : k \in -1..Len(data)}

\* outcomes a load can meet: app_data_dir fails; the metadata of an existing
\* file cannot be fetched; an existing file cannot be read
LoadEnvs(file) ==
    {EnvOk, [EnvOk EXCEPT !.resolve = FALSE]}
    \cup (IF file.exists
          THEN {[EnvOk EXCEPT !.stat = FALSE], [EnvOk EXCEPT !.read = FALSE]}
          ELSE {})

-----------------------------------------------------------------------------
(* The file system calls *)

\* fs::create_dir_all: Ok when the directory is there already
create_dir_all(fs, ok) ==
    IF fs.dir \/ ok THEN [ok |-> TRUE, fs |-> [fs EXCEPT !.dir = TRUE]]
    ELSE [ok |-> FALSE, fs |-> fs]

\* a slip: the file is opened without truncation, so what the old content
\* has beyond the new one stays
fs_write_no_truncate(fs, name, data, k) ==
    LET old == fs.files[name].data IN
    IF k < 0 THEN [ok |-> FALSE, fs |-> fs]
    ELSE IF k < Len(data)
    THEN [ok |-> FALSE, fs |-> [fs EXCEPT !.files[name] = File(SubSeq(data, 1, k))]]
    ELSE [ok |-> TRUE,
          fs |-> [fs EXCEPT !.files[name] =
                     File(data \o SubSeq(old, Len(data) + 1, Len(old)))]]

\* a slip: the file is opened for appending
fs_write_append(fs, name, data, k) ==
    LET old == fs.files[name].data IN
    IF k < 0 THEN [ok |-> FALSE, fs |-> fs]
    ELSE IF k < Len(data)
    THEN [ok |-> FALSE, fs |-> [fs EXCEPT !.files[name] = File(old \o SubSeq(data, 1, k))]]
    ELSE [ok |-> TRUE, fs |-> [fs EXCEPT !.files[name] = File(old \o data)]]

\* fs::write: creates or truncates the file, then writes the buffer; a
\* failure leaves the old file (open failed) or the bytes written so far
fs_write(fs, name, data, k) ==
    IF k < 0 THEN [ok |-> FALSE, fs |-> fs]
    ELSE IF k < Len(data)
    THEN [ok |-> FALSE, fs |-> [fs EXCEPT !.files[name] = File(SubSeq(data, 1, k))]]
    ELSE [ok |-> TRUE, fs |-> [fs EXCEPT !.files[name] = File(data)]]

\* a slip: the file is read without asking whether it is there
exists_unchecked(fs, name, statOk) == TRUE

\* Path::exists: false when the metadata cannot be fetched
exists(fs, name, statOk) == fs.files[name].exists /\ statOk

\* fs::read_to_string
read_to_string(fs, name, readOk, what) ==
    IF fs.files[name].exists /\ readOk THEN Ok(fs.files[name].data) ELSE Err(what)

-----------------------------------------------------------------------------
(* The persistence commands: [res, fs, steps] *)

Done(res, fs, steps) == [res |-> res, fs |-> fs, steps |-> steps]

save_notes(fs, text, env) ==
    IF ~env.resolve
    THEN Done(Err("Failed to get app data directory"), fs, <<"app_data_dir">>)
    ELSE LET mk == create_dir_all(fs, env.mkdir) IN
         IF ~mk.ok
         THEN Done(Err("Failed to create app directory"), mk.fs,
                   <<"app_data_dir", "create_dir_all">>)
         ELSE LET w == fs_write(mk.fs, notes_file, text, env.write) IN
              Done(IF w.ok THEN Ok(Unit) ELSE Err("Failed to save notes"), w.fs,
                   <<"app_data_dir", "create_dir_all", "write">>)

load_notes(fs, env) ==
    IF ~env.resolve
    THEN Done(Err("Failed to get app data directory"), fs, <<"app_data_dir">>)
    ELSE IF exists(fs, notes_file, env.stat)
         THEN Done(read_to_string(fs, notes_file, env.read, "Failed to load notes"),
                   fs, <<"app_data_dir", "exists", "read_to_string">>)
         ELSE Done(Ok(EmptyArray), fs, <<"app_data_dir", "exists">>)

\* a slip: the whole payload is serialized
tasks_json_enveloped(payload) == to_string(Envelope(payload))

\* line 59: the text written is that of the tasks field alone
tasks_json(payload) == to_string(payload.tasks)

\* a slip: the file is created before the value is serialized
save_tasks_truncate_first(fs, payload, env) ==
    IF ~env.resolve
    THEN Done(Err("Failed to get app data directory"), fs, <<"app_data_dir">>)
    ELSE LET mk == create_dir_all(fs, env.mkdir) IN
         IF ~mk.ok
         THEN Done(Err("Failed to create app directory"), mk.fs,
                   <<"app_data_dir", "create_dir_all">>)
         ELSE IF ~env.ser
         THEN Done(Err("Failed to serialize tasks"),
                   [mk.fs EXCEPT !.files[tasks_file] = File("")],
                   <<"app_data_dir", "create_dir_all", "to_string">>)
         ELSE LET w == fs_write(mk.fs, tasks_file, tasks_json(payload), env.write) IN
              Done(IF w.ok THEN Ok(Unit) ELSE Err("Failed to save tasks"), w.fs,
                   <<"app_data_dir", "create_dir_all", "to_string", "write">>)

save_tasks(fs, payload, env) ==
    IF ~env.resolve
    THEN Done(Err("Failed to get app data directory"), fs, <<"app_data_dir">>)
    ELSE LET mk == create_dir_all(fs, env.mkdir) IN
         IF ~mk.ok
         THEN Done(Err("Failed to create app directory"), mk.fs,
                   <<"app_data_dir", "create_dir_all">>)
         ELSE IF ~env.ser
         THEN Done(Err("Failed to serialize tasks"), mk.fs,
                   <<"app_data_dir", "create_dir_all", "to_string">>)
         ELSE LET w == fs_write(mk.fs, tasks_file, tasks_json(payload), env.write) IN
              Done(IF w.ok THEN Ok(Unit) ELSE Err("Failed to save tasks"), w.fs,
                   <<"app_data_dir", "create_dir_all", "to_string", "write">>)

load_tasks(fs, env) ==
    IF ~env.resolve
    THEN Done(Err("Failed to get app data directory"), fs, <<"app_data_dir">>)
    ELSE IF exists(fs, tasks_file, env.stat)
         THEN Done(read_to_string(fs, tasks_file, env.read, "Failed to load tasks"),
                   fs, <<"app_data_dir", "exists", "read_to_string">>)
         ELSE Done(Ok(EmptyArray), fs, <<"app_data_dir", "exists">>)

-----------------------------------------------------------------------------
(* The global shortcut handler *)

Shortcut(mods, key) == [mods |-> mods, key |-> key]

\* the shortcuts the handler is called for: "CmdOrCtrl+M" and "CmdOrCtrl+Q",
\* CmdOrCtrl being Control or Meta/Command after the host's convention
Registered ==
    {Shortcut(m, k) : m \in {"CONTROL", "META"}, k \in {"KeyM", "KeyQ"}}

ShortcutStates == {"Pressed", "Released"}

\* a slip: the modifier asked for is not looked at, Control is
matches_control_only(shortcut, mods, key) ==
    shortcut.mods = "CONTROL" /\ shortcut.key = key

\* Shortcut::matches
matches(shortcut, mods, key) == shortcut.mods = mods /\ shortcut.key = key

\* outcomes of the window calls when none fails
KeyEnvOk == [vis |-> TRUE, hide |-> TRUE, show |-> TRUE, focus |-> TRUE]

\* outcomes the handler can meet: is_visible fails or not; then hide fails or
\* not (a window reported visible), or show and set_focus fail or not
KeyEnvs(w, shortcut, state) ==
    IF state = "Pressed" /\ shortcut.key = "KeyM" /\ w.present
    THEN {e \in [vis : BOOLEAN, hide : BOOLEAN, show : BOOLEAN, focus : BOOLEAN] :
            IF e.vis /\ w.visible THEN e.show /\ e.focus ELSE e.hide}
    ELSE {KeyEnvOk}

\* WebviewWindow::is_visible
is_visible(w, ok) == IF ok THEN Ok(w.visible) ELSE Err("is_visible")

\* WebviewWindow::hide: a hidden window has no focus
hide(w, ok) == IF ok THEN [w EXCEPT !.visible = FALSE, !.focused = FALSE] ELSE w

\* WebviewWindow::show
show(w, ok) == IF ok THEN [w EXCEPT !.visible = TRUE] ELSE w

\* WebviewWindow::set_focus: only a visible window takes the focus
set_focus(w, ok) == IF ok /\ w.visible THEN [w EXCEPT !.focused = TRUE] ELSE w

\* a slip: a failure exit code
app_exit_failure(p, code) == [running |-> FALSE, code |-> code + 1]

\* AppHandle::exit
app_exit(p, code) == [running |-> FALSE, code |-> code]

KeyDone(w, p, steps) == [window |-> w, process |-> p, steps |-> steps]

\* a slip: the window is shown and not focused
toggle_without_focus(w, p, env) ==
    IF ~w.present THEN KeyDone(w, p, <<"get_webview_window">>)
    ELSE LET v == is_visible(w, env.vis) IN
         IF v.ok /\ v.val
         THEN KeyDone(hide(w, env.hide), p,
                      <<"get_webview_window", "is_visible", "hide">>)
         ELSE KeyDone(show(w, env.show), p,
                      <<"get_webview_window", "is_visible", "show">>)

\* lines 99-113: the toggle branch
toggle(w, p, env) ==
    IF ~w.present THEN KeyDone(w, p, <<"get_webview_window">>)
    ELSE LET v == is_visible(w, env.vis) IN
         IF v.ok /\ v.val
         THEN KeyDone(hide(w, env.hide), p,
                      <<"get_webview_window", "is_visible", "hide">>)
         ELSE KeyDone(set_focus(show(w, env.show), env.focus), p,
                      <<"get_webview_window", "is_visible", "show", "set_focus">>)

\* lines 95-120: the closure given to with_handler
handler(w, p, shortcut, state, env) ==
    IF state = "Pressed"
    THEN IF matches(shortcut, "CONTROL", "KeyM") \/ matches(shortcut, "META", "KeyM")
         THEN toggle(w, p, env)
         ELSE IF matches(shortcut, "CONTROL", "KeyQ") \/ matches(shortcut, "META", "KeyQ")
         THEN KeyDone(w, app_exit(p, 0), <<"exit">>)
         ELSE KeyDone(w, p, <<>>)
    ELSE KeyDone(w, p, <<>>)

-----------------------------------------------------------------------------
(* History *)

None == [some |-> FALSE]
Some(x) == [some |-> TRUE, val |-> x]

\* the first fault-free load of a document since its latest save
FirstSeen(s, res) == IF s.some THEN s ELSE [some |-> TRUE, val |-> res, other |-> FALSE]

\* the other document was saved
Crossed(s) == IF s.some THEN [s EXCEPT !.other = TRUE] ELSE s

-----------------------------------------------------------------------------
(* The state machine *)

\* a first run: no data directory and no document yet; the main window as
\* the host built it
Init ==
    /\ dirExists = FALSE
    /\ files = [n \in FileNames |-> NoFile]
    /\ window \in {w \in [present : BOOLEAN, visible : BOOLEAN, focused : BOOLEAN] :
                     /\ w.focused => w.visible
                     /\ w.visible => w.present}
    /\ process = [running |-> TRUE, code |-> 0]
    /\ held = {}
    /\ last = [op |-> "run"]
    /\ notesSaved = None
    /\ tasksSaved = None
    /\ seen = [notes |-> None, tasks |-> None]

SaveNotes ==
    /\ process.running
    /\ \E text \in NotesArgs :
       \E env \in SaveEnvs(dirExists, text, FALSE) :
          LET r == save_notes(Fs(dirExists, files), text, env) IN
          /\ dirExists' = r.fs.dir
          /\ files' = r.fs.files
          /\ last' = [op |-> "save_notes", env |-> env, res |-> r.res,
                      steps |-> r.steps,
                      repeat |-> r.res.ok /\ notesSaved = Some(text)]
          /\ notesSaved' = IF r.res.ok THEN Some(text) ELSE None
          /\ seen' = [notes |-> None, tasks |-> Crossed(seen.tasks)]
    /\ UNCHANGED <<window, process, held, tasksSaved>>

LoadNotes ==
    /\ process.running
    /\ \E env \in LoadEnvs(files[notes_file]) :
          LET r == load_notes(Fs(dirExists, files), env) IN
          /\ dirExists' = r.fs.dir
          /\ files' = r.fs.files
          /\ last' = [op |-> "load_notes", env |-> env, res |-> r.res,
                      steps |-> r.steps]
          /\ seen' = IF env = EnvOk
                     THEN [seen EXCEPT !.notes = FirstSeen(seen.notes, r.res)]
                     ELSE seen
    /\ UNCHANGED <<window, process, held, notesSaved, tasksSaved>>

SaveTasks ==
    /\ process.running
    /\ \E payload \in Payloads :
       \E env \in SaveEnvs(dirExists, tasks_json(payload), TRUE) :
          LET r == save_tasks(Fs(dirExists, files), payload, env) IN
          /\ dirExists' = r.fs.dir
          /\ files' = r.fs.files
          /\ last' = [op |-> "save_tasks", env |-> env, res |-> r.res,
                      steps |-> r.steps,
                      repeat |-> r.res.ok /\ tasksSaved = Some(payload)]
          /\ tasksSaved' = IF r.res.ok THEN Some(payload) ELSE None
          /\ seen' = [notes |-> Crossed(seen.notes), tasks |-> None]
    /\ UNCHANGED <<window, process, held, notesSaved>>

LoadTasks ==
    /\ process.running
    /\ \E env \in LoadEnvs(files[tasks_file]) :
          LET r == load_tasks(Fs(dirExists, files), env) IN
          /\ dirExists' = r.fs.dir
          /\ files' = r.fs.files
          /\ last' = [op |-> "load_tasks", env |-> env, res |-> r.res,
                      steps |-> r.steps]
          /\ seen' = IF env = EnvOk
                     THEN [seen EXCEPT !.tasks = FirstSeen(seen.tasks, r.res)]
                     ELSE seen
    /\ UNCHANGED <<window, process, held, notesSaved, tasksSaved>>

\* the host calls the handler with a registered shortcut that was pressed
\* (again, while it is held down) or that was released after a press
ShortcutEvent ==
    /\ process.running
    /\ \E shortcut \in Registered, state \in ShortcutStates :
       /\ state = "Released" => shortcut \in held
       /\ held' = IF state = "Pressed" THEN held \cup {shortcut}
                  ELSE held \ {shortcut}
       /\ \E env \in KeyEnvs(window, shortcut, state) :
          LET r == handler(window, process, shortcut, state, env) IN
          /\ window' = r.window
          /\ process' = r.process
          /\ last' = [op |-> "shortcut", shortcut |-> shortcut, state |-> state,
                      env |-> env, before |-> window, steps |-> r.steps]
    /\ UNCHANGED <<dirExists, files, notesSaved, tasksSaved, seen>>

Commands == SaveNotes \/ LoadNotes \/ SaveTasks \/ LoadTasks

Next == Commands \/ ShortcutEvent

\* the application
Spec == Init /\ [][Next]_vars

\* the persistence commands alone (they leave window, process and held as
\* they are), under a window that is shown
InitCommands == Init /\ window.focused

SpecCommands == InitCommands /\ [][Commands]_vars

\* the shortcut handler alone (it leaves the documents as they are)
SpecShortcuts == Init /\ [][ShortcutEvent]_vars

TypeOK ==
    /\ dirExists \in BOOLEAN
    /\ \A n \in FileNames : files[n].exists => dirExists
    /\ window.focused => window.visible
    /\ window.visible => window.present
    /\ process.running => process.code = 0
    /\ held \subseteq Registered

-----------------------------------------------------------------------------
(* The claims *)

NotesDoc == files["notes.json"]
TasksDoc == files["tasks.json"]

SaveOps == {"save_notes", "save_tasks"}
LoadOps == {"load_notes", "load_tasks"}

\* the document a command is about
DocOf(op) == IF op \in {"save_notes", "load_notes"} THEN NotesDoc ELSE TasksDoc

\* C1: a load_notes whose directory resolves and whose file can be read,
\* made while the latest save_notes is a successful save_notes(s), whatever
\* other commands ran before or between, returns exactly s.
C1_NotesRoundTrip ==
    (last.op = "load_notes" /\ last.env = EnvOk /\ notesSaved.some)
        => last.res = Ok(notesSaved.val)

\* "[" saved over an earlier document, tasks.json present, then loaded
C1_Witness ==
    /\ last.op = "load_notes" /\ last.env = EnvOk
    /\ notesSaved = Some("[") /\ last.res = Ok("[")
    /\ TasksDoc.exists

\* C2: a load whose data directory resolves and whose file does not exist
\* returns Ok("[]").
C2_MissingFileDefault ==
    (last.op \in LoadOps /\ last.env.resolve /\ ~DocOf(last.op).exists)
        => last.res = Ok("[]")

\* load_tasks before any save: no file, not even the directory
C2_Witness ==
    /\ last.op = "load_tasks" /\ last.env.resolve
    /\ ~TasksDoc.exists /\ ~dirExists /\ last.res.ok

\* C3: a load_tasks whose directory resolves and whose file can be read,
\* made while the latest save_tasks is a successful save_tasks({tasks: V}),
\* returns the serialized text of V alone; and after a successful
\* save_tasks the file is not the serialized envelope.
C3_TasksUnwrapped ==
    /\ (last.op = "load_tasks" /\ last.env = EnvOk /\ tasksSaved.some)
          => last.res = Ok(to_string(tasksSaved.val.tasks))
    /\ tasksSaved.some => TasksDoc # File(to_string(Envelope(tasksSaved.val)))

\* {tasks: [1]} saved, "[1]" loaded
C3_Witness ==
    /\ last.op = "load_tasks" /\ last.env = EnvOk
    /\ tasksSaved = Some(TasksPayload(Arr(<<Num(1)>>)))
    /\ last.res = Ok("[1]")

\* a press of the toggle key, the main window being there
TogglePress ==
    /\ last.op = "shortcut" /\ last.state = "Pressed"
    /\ last.shortcut.key = "KeyM" /\ last.before.present

\* C4: after a toggle press whose hide, show and set_focus calls succeed:
\* a window reported visible is hidden; a window reported hidden, or whose
\* visibility could not be determined, is visible and focused.
C4_Toggle ==
    (TogglePress /\ last.env.hide /\ last.env.show /\ last.env.focus)
        => IF last.env.vis /\ last.before.visible
           THEN ~window.visible
           ELSE window.visible /\ window.focused

\* is_visible failed on a hidden window, which is then shown and focused
C4_Witness ==
    /\ TogglePress /\ ~last.env.vis /\ last.env.show /\ last.env.focus
    /\ ~last.before.visible /\ window.visible /\ window.focused

\* a press of the quit key
QuitPress ==
    /\ last.op = "shortcut" /\ last.state = "Pressed"
    /\ last.shortcut.key = "KeyQ"

\* C5: after a quit press the process has exited with code 0, the handler
\* having made no other call than exit, whatever the window's state.
C5_Quit ==
    QuitPress => /\ ~process.running /\ process.code = 0
                 /\ last.steps = <<"exit">>
                 /\ window = last.before

\* quit pressed while the window is hidden
C5_Witness ==
    /\ QuitPress /\ last.before.present /\ ~last.before.visible
    /\ ~process.running

\* C6: a successful save whose content is that of the preceding save of the
\* same document, itself successful, leaves every file as it was.
C6_IdempotentSave ==
    [][(last'.op \in SaveOps /\ last'.res.ok /\ last'.repeat)
          => (files' = files /\ dirExists' = dirExists)]_vars

\* "[]" saved twice in a row, and {tasks: [1]} saved twice in a row
C6_Witness ==
    \/ /\ last.op = "save_notes" /\ last.repeat /\ NotesDoc = File("[]")
    \/ /\ last.op = "save_tasks" /\ last.repeat /\ TasksDoc = File("[1]")

\* the file exists and cannot be read: its metadata or its content
Unreadable(doc, env) == doc.exists /\ (~env.stat \/ ~env.read)

\* C7: a load fails only if the data directory does not resolve or the file
\* exists and cannot be read; in every other case it succeeds, with the
\* file's content when the file exists.
C7_LoadFailures ==
    last.op \in LoadOps =>
        /\ ~last.res.ok =>
              (~last.env.resolve \/ Unreadable(DocOf(last.op), last.env))
        /\ (last.env.resolve /\ ~Unreadable(DocOf(last.op), last.env)) =>
              /\ last.res.ok
              /\ DocOf(last.op).exists => last.res.val = DocOf(last.op).data

\* load_notes fails on a file that is there
C7_Witness ==
    /\ last.op = "load_notes" /\ ~last.res.ok
    /\ NotesDoc.exists /\ ~last.env.read
    /\ last.res.err = "Failed to load notes"

\* the text a successful save was given to write
SavedText(op, ns, ts) ==
    IF op = "save_notes" THEN ns.val ELSE to_string(ts.val.tasks)

\* C8: a save stops at the first step that fails, with that step's error,
\* and makes no later call: when app_data_dir, create_dir_all or to_string
\* fails the files are what they were; and a save returns ok only when its
\* file holds the content given.
C8_SaveSteps ==
    [][last'.op \in SaveOps =>
        /\ ~last'.env.resolve =>
              /\ last'.res = Err("Failed to get app data directory")
              /\ last'.steps = <<"app_data_dir">>
              /\ files' = files /\ dirExists' = dirExists
        /\ ~last'.env.mkdir =>
              /\ last'.res = Err("Failed to create app directory")
              /\ last'.steps = <<"app_data_dir", "create_dir_all">>
              /\ files' = files /\ dirExists' = dirExists
        /\ ~last'.env.ser =>
              /\ last'.res = Err("Failed to serialize tasks")
              /\ last'.steps = <<"app_data_dir", "create_dir_all", "to_string">>
              /\ files' = files
        /\ last'.res.ok =>
              /\ last'.steps[Len(last'.steps)] = "write"
              /\ files'[IF last'.op = "save_notes" THEN "notes.json" ELSE "tasks.json"]
                    = File(SavedText(last'.op, notesSaved', tasksSaved'))
        /\ (~last'.res.ok /\ last'.env.resolve /\ last'.env.mkdir /\ last'.env.ser) =>
              /\ last'.steps[Len(last'.steps)] = "write"
              /\ last'.res.err \in {"Failed to save notes", "Failed to save tasks"}
      ]_vars

\* serialization failed with tasks.json there: the file is as it was
C8_Witness ==
    /\ last.op = "save_tasks" /\ ~last.env.ser /\ ~last.res.ok
    /\ TasksDoc = File("[1]")

\* C9: a press of the M key toggles and a press of the Q key quits, under
\* Control as under Meta: the handler's result for a key is the same for
\* the two modifiers, M never exits and Q never touches the window.
C9_EitherModifier ==
    /\ (last.op = "shortcut" /\ last.state = "Pressed") =>
          /\ last.shortcut.key = "KeyM" =>
                /\ last.steps # <<>> /\ last.steps[1] = "get_webview_window"
                /\ process.running
          /\ last.shortcut.key = "KeyQ" =>
                /\ last.steps = <<"exit">>
                /\ window = last.before
    /\ \A k \in {"KeyM", "KeyQ"} :
          \A env \in KeyEnvs(window, Shortcut("CONTROL", k), "Pressed") :
             handler(window, process, Shortcut("CONTROL", k), "Pressed", env)
                = handler(window, process, Shortcut("META", k), "Pressed", env)

\* Meta+M hides a visible window
C9_Witness ==
    /\ last.op = "shortcut" /\ last.state = "Pressed"
    /\ last.shortcut = Shortcut("META", "KeyM")
    /\ last.before.visible /\ ~window.visible

\* C10: save_notes leaves tasks.json as it is and save_tasks leaves
\* notes.json as it is; a load leaves both files and the directory as they
\* are; and a load whose directory resolves and whose file can be read
\* returns what the first such load since the document's latest save
\* returned, whatever saves of the other document came between.
C10_Independent ==
    [][/\ last'.op = "save_notes" => files'["tasks.json"] = files["tasks.json"]
       /\ last'.op = "save_tasks" => files'["notes.json"] = files["notes.json"]
       /\ last'.op \in LoadOps => (files' = files /\ dirExists' = dirExists)
       /\ (last'.op = "load_tasks" /\ last'.env = EnvOk /\ seen.tasks.some)
             => last'.res = seen.tasks.val
       /\ (last'.op = "load_notes" /\ last'.env = EnvOk /\ seen.notes.some)
             => last'.res = seen.notes.val
      ]_vars

\* load_tasks, a successful save_notes, load_tasks again
C10_Witness ==
    /\ last.op = "load_tasks" /\ last.env = EnvOk
    /\ seen.tasks.some /\ seen.tasks.other /\ seen.tasks.val = Ok("[1]")
    /\ notesSaved.some

====
